---- MODULE Spec2Model ----
(***************************************************************************)
(* The outbound request governor of BinaryLaneClient (api-client):         *)
(* the admission gate (waitForSlot / releaseSlot) and the retry loop of    *)
(* request().  JavaScript runs one synchronous segment at a time, so each  *)
(* action below is one such segment: the code between two awaits.          *)
(***************************************************************************)
EXTENDS Integers, Sequences, FiniteSets, TLC

\* ---------------------------------------------------------------- bounds
MaxRequests   == 3      \* logical requests the callers issue
MaxConcurrent == 2      \* largest maxConcurrent a client is configured with
MaxRetries    == 2      \* largest maxRetries of a client that serves one request
MaxGateRetries == 1     \* largest maxRetries of a client that serves many

\* ------------------------------------------------------ program constants
DefaultMaxConcurrent     == 5
DefaultMaxRetries        == 3
DefaultBaseDelay         == 1000
DefaultMaxDelay          == 32000
DefaultBackoffMultiplier == 2

Undefined == "undefined"      \* an omitted option
Absent    == "<absent>"       \* headers.get() found no such header (null)

Requests == 1 .. MaxRequests

\* ------------------------------------------------------------- transport
\* What one fetch() can produce: a rejection (no response obtained) or a
\* response with a status, a body text and possibly a Retry-After header.
StatusCodes == {200, 204, 400, 401, 403, 404, 429, 500, 502, 503, 504}

EmptyText   == ""
HtmlText    == "<html>Bad Gateway</html>"
ObjectText  == "{}"
DetailText  == "{\"detail\":\"d\"}"
TitleText   == "{\"title\":\"t\"}"
AccountText == "{\"account\":\"a\"}"

Texts == {EmptyText, HtmlText, ObjectText, DetailText, TitleText, AccountText}

RetryAfterHeaders == {Absent, "", "0", "2"}

NetworkFailure ==
    [kind |-> "reject", status |-> 0, text |-> EmptyText, retryAfter |-> Absent]

Response(s, t, h) ==
    [kind |-> "response", status |-> s, text |-> t, retryAfter |-> h]

AllOutcomes ==
    {NetworkFailure}
      \cup {Response(s, t, h) : s \in StatusCodes, t \in Texts,
                                 h \in RetryAfterHeaders}

\* The mock transport of the concurrency test: few kinds of answers, many
\* requests.
FewOutcomes ==
    { Response(200, AccountText, Absent),
      Response(401, DetailText, Absent),
      Response(503, DetailText, Absent) }

\* The statuses the specification calls retryable.
RetryableStatuses == {429, 502, 503, 504}

NoResponse == [kind |-> "none", status |-> 0, text |-> EmptyText, retryAfter |-> Absent]

\* ------------------------------------------------------------ JSON, errors
EmptyObject == [detail |-> Undefined, title |-> Undefined, account |-> Undefined]

\* JSON.parse on the body texts of the transport; "<html>..." is not JSON.
JSONparse(text) ==
    CASE text = ObjectText  -> [ok |-> TRUE,  data |-> EmptyObject]
      [] text = DetailText  -> [ok |-> TRUE,  data |-> [EmptyObject EXCEPT !.detail = "d"]]
      [] text = TitleText   -> [ok |-> TRUE,  data |-> [EmptyObject EXCEPT !.title = "t"]]
      [] text = AccountText -> [ok |-> TRUE,  data |-> [EmptyObject EXCEPT !.account = "a"]]
      [] OTHER              -> [ok |-> FALSE, data |-> EmptyObject]

\* parseInt(header, 10) on the header values of the transport.
parseInt(h) ==
    CASE h = "0" -> 0
      [] h = "2" -> 2
      [] OTHER   -> 0

NoError     == [name |-> "none",        message |-> "", statusCode |-> 0]
FetchError  == [name |-> "TypeError",   message |-> "fetch failed", statusCode |-> 0]
SyntaxError == [name |-> "SyntaxError", message |-> "Unexpected token", statusCode |-> 0]
BuildError  == [name |-> "TypeError",   message |-> "cannot serialize body", statusCode |-> 0]
LoopEndError == [name |-> "Error", message |-> "Request failed after all retry attempts",
                 statusCode |-> 0]

Truthy(s) == s # Undefined /\ s # ""

ApiError(data, status) ==
    [name       |-> "ApiError",
     message    |-> IF Truthy(data.detail) THEN data.detail
                    ELSE IF Truthy(data.title) THEN data.title
                    ELSE "API error: " \o ToString(status),
     statusCode |-> status]

\* response.ok that leaves out 200.
ResponseOkOffByOne(status) == status \in 201 .. 299

\* response.ok
ResponseOk(status) == status \in 200 .. 299

\* ------------------------------------------------------------------ state
VARIABLES
    maxConcurrent,   \* this.maxConcurrent
    retryConfig,     \* this.retryConfig
    activeRequests,  \* this.activeRequests
    requestQueue,    \* this.requestQueue: the waiters, head first
    pc,              \* where each request() call stands
    attempt,         \* the loop variable of each request() call
    lastError,       \* the local lastError of each request() call
    delay,           \* the delay a sleeping request() call is waiting out
    settled,         \* how each request() promise settled
    callCount,       \* fetch() calls made for each logical request
    released,        \* releaseSlot() calls made by each logical request
    lastResponse,    \* the last fetch outcome each request has handled
    retryableCount,  \* responses with a retryable status each request handled
    rejectCount,     \* rejected fetch() calls each request handled
    grantLog,        \* the requests in the order they were given a slot
    waited,          \* the requests that were pushed on the queue
    issued,          \* request() calls made so far; request r is the r-th call
    calls,           \* request() calls the callers make in this run
    givenConfig,     \* the configuration the constructor was given
    transport,       \* the fetch outcomes the remote side can produce
    toolPhase,       \* where the tool-call handler of the server stands
    toolRequest,     \* the tool call it is handling
    handlerSettled,  \* how the tool's handler settled
    toolResult,      \* what the tool-call handler gave back
    apiRequests      \* client calls made for the tool call

clientVars == << maxConcurrent, retryConfig, activeRequests, requestQueue, pc,
                 attempt, lastError, delay, settled, callCount, released,
                 lastResponse, retryableCount, rejectCount, grantLog, waited,
                 issued, calls, givenConfig, transport >>

serverVars == << toolPhase, toolRequest, handlerSettled, toolResult, apiRequests >>

vars == << clientVars, serverVars >>

gateVars == << activeRequests, requestQueue >>
configVars == << maxConcurrent, retryConfig, calls, givenConfig, transport >>

\* The tool-call handler before its first call.
NoToolRequest == [name |-> "", args |-> "none"]
NoValue       == [type |-> "none", data |-> EmptyObject, text |-> ""]
NotSettled    == [kind |-> "none", value |-> NoValue, error |-> NoError]
NoToolResult  == [kind |-> "none", isError |-> FALSE, text |-> ""]

\* ------------------------------------------------------------ constructor
\* An omitted field read without its default.
CoalesceNoDefault(opt, default) == IF opt = <<>> THEN 0 ELSE opt[1]

\* An option is <<>> when omitted and <<v>> when given; Coalesce is `??`.
Coalesce(opt, default) == IF opt = <<>> THEN default ELSE opt[1]

Config(mc, mr) ==
    [maxConcurrent |-> mc, maxRetries |-> mr, baseDelay |-> <<>>,
     maxDelay |-> <<>>, backoffMultiplier |-> <<>>]

\* A configuration whose backoff reaches maxDelay on the third attempt:
\* 500, 1000, then 2000 capped to 1000.
CappedConfig ==
    [maxConcurrent |-> <<1>>, maxRetries |-> <<MaxRetries + 1>>,
     baseDelay |-> <<500>>, maxDelay |-> <<1000>>, backoffMultiplier |-> <<2>>]

\* A transport that fails at network level, fails with a retryable status,
\* with or without Retry-After, or succeeds.
FlakyOutcomes ==
    { NetworkFailure,
      Response(503, DetailText, Absent),
      Response(429, DetailText, "2"),
      Response(200, AccountText, Absent) }

\* A constructor that raises a maxConcurrent below 1 to 1.
constructorAtLeastOne(config) ==
    [maxConcurrent |->
        IF Coalesce(config.maxConcurrent, DefaultMaxConcurrent) < 1 THEN 1
        ELSE Coalesce(config.maxConcurrent, DefaultMaxConcurrent),
     retryConfig   |->
        [maxRetries        |-> Coalesce(config.maxRetries, DefaultMaxRetries),
         baseDelay         |-> Coalesce(config.baseDelay, DefaultBaseDelay),
         maxDelay          |-> Coalesce(config.maxDelay, DefaultMaxDelay),
         backoffMultiplier |-> Coalesce(config.backoffMultiplier,
                                        DefaultBackoffMultiplier)]]

constructor(config) ==
    [maxConcurrent |-> Coalesce(config.maxConcurrent, DefaultMaxConcurrent),
     retryConfig   |->
        [maxRetries        |-> Coalesce(config.maxRetries, DefaultMaxRetries),
         baseDelay         |-> Coalesce(config.baseDelay, DefaultBaseDelay),
         maxDelay          |-> Coalesce(config.maxDelay, DefaultMaxDelay),
         backoffMultiplier |-> Coalesce(config.backoffMultiplier,
                                        DefaultBackoffMultiplier)]]

\* The runs explored: many concurrent requests against a transport with few
\* kinds of answers; one request against every kind of answer; one request on
\* a client constructed without configuration, or with part of it; one
\* request on a client whose backoff reaches maxDelay.
GateScenarios ==
    { [calls |-> MaxRequests, transport |-> FewOutcomes,
       config |-> Config(<<mc>>, <<mr>>)] :
          mc \in 0 .. MaxConcurrent, mr \in 0 .. MaxGateRetries }

Scenarios ==
    GateScenarios
    \cup
    { [calls |-> 1, transport |-> AllOutcomes, config |-> Config(<<1>>, <<mr>>)] :
          mr \in 0 .. MaxRetries }
    \cup
    { [calls |-> 1, transport |-> FewOutcomes, config |-> Config(<<>>, <<>>)],
      [calls |-> 1, transport |-> FewOutcomes, config |-> Config(<<1>>, <<>>)],
      [calls |-> 1, transport |-> FewOutcomes, config |-> Config(<<>>, <<0>>)],
      [calls |-> 1, transport |-> FlakyOutcomes, config |-> CappedConfig] }

InitWith(sc) ==
        LET client == constructor(sc.config) IN
        /\ maxConcurrent  = client.maxConcurrent
        /\ retryConfig    = client.retryConfig
        /\ activeRequests = 0
        /\ requestQueue   = << >>
        /\ pc             = [r \in Requests |-> "idle"]
        /\ attempt        = [r \in Requests |-> 0]
        /\ lastError      = [r \in Requests |-> NoError]
        /\ delay          = [r \in Requests |-> 0]
        /\ settled        = [r \in Requests |->
                               [kind |-> "pending", value |-> EmptyObject,
                                error |-> NoError]]
        /\ callCount      = [r \in Requests |-> 0]
        /\ released       = [r \in Requests |-> 0]
        /\ lastResponse   = [r \in Requests |-> NoResponse]
        /\ retryableCount = [r \in Requests |-> 0]
        /\ rejectCount    = [r \in Requests |-> 0]
        /\ grantLog       = << >>
        /\ waited         = {}
        /\ issued         = 0
        /\ calls          = sc.calls
        /\ givenConfig    = sc.config
        /\ transport      = sc.transport
        /\ toolPhase      = "idle"
        /\ toolRequest    = NoToolRequest
        /\ handlerSettled = NotSettled
        /\ toolResult     = NoToolResult
        /\ apiRequests    = 0

Init == \E sc \in Scenarios : InitWith(sc)

\* The runs with many concurrent requests alone.
InitGate == \E sc \in GateScenarios : InitWith(sc)

\* One answer for every way an attempt can end: rejection, 204, empty body,
\* a body that is not JSON on a success, a terminal and a retryable status,
\* JSON bodies on a success, a terminal and a retryable status, Retry-After.
EveryKindOfOutcome ==
    { NetworkFailure,
      Response(204, HtmlText, Absent),
      Response(200, EmptyText, Absent),
      Response(200, HtmlText, Absent),
      Response(200, AccountText, Absent),
      Response(404, DetailText, Absent),
      Response(404, HtmlText, Absent),
      Response(503, HtmlText, "2"),
      Response(503, DetailText, Absent),
      Response(429, TitleText, "2") }

\* The concurrent runs, and one request against every kind of outcome.
RetryScenarios ==
    GateScenarios
    \cup
    { [calls |-> 1, transport |-> EveryKindOfOutcome,
       config |-> Config(<<1>>, <<mr>>)] : mr \in 0 .. MaxRetries }

InitRetry == \E sc \in RetryScenarios : InitWith(sc)

\* ------------------------------------------------------------------- gate
\* waitForSlot admitting one request too many.
waitForSlotOffByOne(active, queue, r) ==
    IF active <= maxConcurrent
    THEN [active |-> active + 1, queue |-> queue, granted |-> TRUE]
    ELSE [active |-> active, queue |-> Append(queue, r), granted |-> FALSE]

\* waitForSlot that puts a new waiter in front of the queue.
waitForSlotUnshift(active, queue, r) ==
    IF active < maxConcurrent
    THEN [active |-> active + 1, queue |-> queue, granted |-> TRUE]
    ELSE [active |-> active, queue |-> << r >> \o queue, granted |-> FALSE]

\* waitForSlot, called by request r: the slot is taken at once, or r's
\* resolver is pushed on the queue.
waitForSlot(active, queue, r) ==
    IF active < maxConcurrent
    THEN [active |-> active + 1, queue |-> queue, granted |-> TRUE]
    ELSE [active |-> active, queue |-> Append(queue, r), granted |-> FALSE]

\* releaseSlot that frees the slot and leaves the waiters where they are.
releaseSlotNoHandOff(active, queue) ==
    [active |-> active - 1, queue |-> queue, next |-> 0]

\* releaseSlot whose resumed waiter does not count itself in activeRequests.
releaseSlotFrees(active, queue) ==
    IF queue # << >>
    THEN [active |-> active - 1, queue |-> Tail(queue), next |-> Head(queue)]
    ELSE [active |-> active - 1, queue |-> queue, next |-> 0]

\* releaseSlot that pops the newest waiter instead of shifting the oldest.
releaseSlotLifo(active, queue) ==
    IF queue # << >>
    THEN [active |-> (active - 1) + 1, queue |-> SubSeq(queue, 1, Len(queue) - 1),
          next |-> queue[Len(queue)]]
    ELSE [active |-> active - 1, queue |-> queue, next |-> 0]

\* releaseSlot: decrement, shift the head waiter and run its resolver, which
\* increments the count again.  next = 0 when nobody was waiting.
releaseSlot(active, queue) ==
    IF queue # << >>
    THEN [active |-> (active - 1) + 1, queue |-> Tail(queue), next |-> Head(queue)]
    ELSE [active |-> active - 1, queue |-> queue, next |-> 0]

\* ------------------------------------------------------------ retry policy
shouldRetry(statusCode) ==
    statusCode = 429 \/ statusCode = 502 \/ statusCode = 503 \/ statusCode = 504

RECURSIVE Pow(_, _)
Pow(b, n) == IF n = 0 THEN 1 ELSE b * Pow(b, n - 1)

Min(a, b) == IF a < b THEN a ELSE b
Max(a, b) == IF a > b THEN a ELSE b

\* Math.random() in hundredths: the two ends of [0, 1).
RandomDraws == {0, 99}

\* calculateDelay(attempt, retryAfter); retryAfter is <<>> when undefined.
\* The backoff without its cap at maxDelay.
calculateDelayNoCap(a, retryAfter, rnd) ==
    IF retryAfter # << >>
    THEN retryAfter[1] * 1000
    ELSE LET exponentialDelay == retryConfig.baseDelay
                                   * Pow(retryConfig.backoffMultiplier, a)
             jitter           == (exponentialDelay * 20 * (2 * rnd - 100)) \div 10000
         IN  Max(0, exponentialDelay + jitter)

calculateDelay(a, retryAfter, rnd) ==
    IF retryAfter # << >>
    THEN retryAfter[1] * 1000
    ELSE LET exponentialDelay == retryConfig.baseDelay
                                   * Pow(retryConfig.backoffMultiplier, a)
             cappedDelay      == Min(exponentialDelay, retryConfig.maxDelay)
             jitter           == (cappedDelay * 20 * (2 * rnd - 100)) \div 10000
         IN  Max(0, cappedDelay + jitter)

\* A loop that forgets to count the attempt it has made.
NextAttemptStuck(a) == a

\* `attempt++`, the update of the for statement.
NextAttempt(a) == a + 1

\* `attempt < this.retryConfig.maxRetries`, the guard of both retry branches.
RetryAllowed(a) == a < retryConfig.maxRetries

Return(data) == [kind |-> "return", value |-> data, error |-> NoError, delay |-> 0]
Throw(err)   == [kind |-> "throw", value |-> EmptyObject, error |-> err, delay |-> 0]
Retry(err, d) == [kind |-> "retry", value |-> EmptyObject, error |-> err, delay |-> d]

\* A catch block that rethrows whatever it caught.
CaughtNoRetry(err, a, rnd) == Throw(err)

\* The catch block for an error that is not an ApiError.
Caught(err, a, rnd) ==
    IF RetryAllowed(a)
    THEN Retry(err, calculateDelay(a, << >>, rnd))
    ELSE Throw(err)

\* The loop body before the empty-body check was added: an empty body goes
\* to JSON.parse.
ClassifyParsesEmptyBody(a, out, rnd) ==
    IF out.kind = "reject" THEN Caught(FetchError, a, rnd)
    ELSE IF out.status = 204 THEN Return(EmptyObject)
    ELSE LET parsed == JSONparse(out.text) IN
         IF ~ parsed.ok THEN Caught(SyntaxError, a, rnd)
         ELSE IF ~ ResponseOk(out.status)
              THEN LET apiError == ApiError(parsed.data, out.status)
                       retryAfterSeconds ==
                           IF out.retryAfter # Absent /\ out.retryAfter # ""
                           THEN << parseInt(out.retryAfter) >>
                           ELSE << >>
                   IN  IF RetryAllowed(a) /\ shouldRetry(out.status)
                       THEN Retry(apiError,
                                  calculateDelay(a, retryAfterSeconds, rnd))
                       ELSE Throw(apiError)
              ELSE Return(parsed.data)

\* The loop body with response.ok tested before the body is parsed: an error
\* status with a body that is not JSON becomes an ApiError without detail.
ClassifyStatusFirst(a, out, rnd) ==
    IF out.kind = "reject" THEN Caught(FetchError, a, rnd)
    ELSE IF out.status = 204 THEN Return(EmptyObject)
    ELSE IF out.text = EmptyText THEN Return(EmptyObject)
    ELSE LET parsed == JSONparse(out.text) IN
         IF ~ ResponseOk(out.status)
         THEN LET apiError == ApiError(parsed.data, out.status)
                  retryAfterSeconds ==
                      IF out.retryAfter # Absent /\ out.retryAfter # ""
                      THEN << parseInt(out.retryAfter) >>
                      ELSE << >>
              IN  IF RetryAllowed(a) /\ shouldRetry(out.status)
                  THEN Retry(apiError,
                             calculateDelay(a, retryAfterSeconds, rnd))
                  ELSE Throw(apiError)
         ELSE IF ~ parsed.ok THEN Caught(SyntaxError, a, rnd)
         ELSE Return(parsed.data)

\* One pass of the loop body once fetch has settled with `out`.
Classify(a, out, rnd) ==
    IF out.kind = "reject" THEN Caught(FetchError, a, rnd)
    ELSE IF out.status = 204 THEN Return(EmptyObject)
    ELSE IF out.text = EmptyText THEN Return(EmptyObject)
    ELSE LET parsed == JSONparse(out.text) IN
         IF ~ parsed.ok THEN Caught(SyntaxError, a, rnd)
         ELSE IF ~ ResponseOk(out.status)
              THEN LET apiError == ApiError(parsed.data, out.status)
                       retryAfterSeconds ==
                           IF out.retryAfter # Absent /\ out.retryAfter # ""
                           THEN << parseInt(out.retryAfter) >>
                           ELSE << >>
                   IN  IF RetryAllowed(a) /\ shouldRetry(out.status)
                       THEN Retry(apiError,
                                  calculateDelay(a, retryAfterSeconds, rnd))
                       ELSE Throw(apiError)
              ELSE Return(parsed.data)

\* releaseSlot placed after the loop's return instead of in a finally block.
ReleasesOnReturnOnly(kind) == kind = "return"

\* releaseSlot after every attempt, the slot being per attempt.
ReleasesOnEveryAttempt(kind) == TRUE

\* try { ... } finally { releaseSlot() }: the finally block runs when the try
\* block is left by a return or a throw, not when the loop continues.
ReleasesOn(kind) == kind \in {"return", "throw"}

\* ---------------------------------------------------------------- request
Holding == {"granted", "fetching", "sleeping"}
Terminal == {"succeeded", "failed"}

\* The loop condition holds for attempt a: fetch is called.
BeginAttempt(r, a) ==
    /\ pc'        = [pc EXCEPT ![r] = "fetching"]
    /\ attempt'   = [attempt EXCEPT ![r] = a]
    /\ callCount' = [callCount EXCEPT ![r] = @ + 1]
    /\ delay'     = [delay EXCEPT ![r] = 0]
    /\ UNCHANGED << gateVars, released, grantLog, settled, lastError >>

\* A retry whose sleep is not awaited: the next pass starts at once.
LandsNoSleep(kind) ==
    CASE kind = "return" -> "succeeded"
      [] kind = "throw"  -> "failed"
      [] OTHER           -> "fetching"

\* A retry whose sleep never resolves: the call stays suspended.
LandsNeverWakes(kind) ==
    CASE kind = "return" -> "succeeded"
      [] kind = "throw"  -> "failed"
      [] OTHER           -> "suspended"

\* A success that is recorded without leaving the loop.
LandsLoopsOn(kind) ==
    CASE kind = "return" -> "sleeping"
      [] kind = "throw"  -> "failed"
      [] OTHER           -> "sleeping"

\* Where a pass of the loop body leaves the call: `return`, `throw`, or
\* `await this.sleep(delay); continue`.
Lands(kind) ==
    CASE kind = "return" -> "succeeded"
      [] kind = "throw"  -> "failed"
      [] OTHER           -> "sleeping"

\* The loop body ends with c: the request sleeps before a retry, or leaves
\* the try block, and then the finally block releases the slot, which may
\* resume the head waiter.  The locals lastError and delay die with the call.
Finish(r, c) ==
    LET rel == IF ReleasesOn(c.kind)
               THEN releaseSlot(activeRequests, requestQueue)
               ELSE [active |-> activeRequests, queue |-> requestQueue, next |-> 0]
        there == Lands(c.kind)
    IN  /\ activeRequests' = rel.active
        /\ requestQueue'   = rel.queue
        /\ pc' = IF rel.next # 0
                 THEN [pc EXCEPT ![r] = there, ![rel.next] = "granted"]
                 ELSE [pc EXCEPT ![r] = there]
        /\ grantLog' = IF rel.next # 0 THEN Append(grantLog, rel.next) ELSE grantLog
        /\ released' = IF ReleasesOn(c.kind)
                       THEN [released EXCEPT ![r] = @ + 1] ELSE released
        /\ settled'  = IF c.kind = "retry" THEN settled
                       ELSE [settled EXCEPT ![r] =
                               [kind |-> c.kind, value |-> c.value, error |-> c.error]]
        /\ lastError' = [lastError EXCEPT ![r] =
                            IF c.kind = "retry" THEN c.error ELSE NoError]
        /\ delay'     = [delay EXCEPT ![r] =
                            IF c.kind = "retry" THEN c.delay ELSE 0]

\* The for statement tests its condition for attempt a.
LoopStep(r, a) ==
    IF a <= retryConfig.maxRetries
    THEN BeginAttempt(r, a)
    ELSE /\ Finish(r, Throw(IF lastError[r] # NoError THEN lastError[r]
                            ELSE LoopEndError))
         /\ UNCHANGED << attempt, callCount >>

\* A caller invokes request(); it runs up to `await this.waitForSlot()`.
Call(r) ==
    /\ issued < calls
    /\ r = issued + 1
    /\ pc[r] = "idle"
    /\ LET w == waitForSlot(activeRequests, requestQueue, r) IN
         /\ activeRequests' = w.active
         /\ requestQueue'   = w.queue
         /\ pc' = [pc EXCEPT ![r] = IF w.granted THEN "granted" ELSE "waiting"]
         /\ grantLog' = IF w.granted THEN Append(grantLog, r) ELSE grantLog
         /\ waited'   = IF w.granted THEN waited ELSE waited \cup {r}
    /\ issued' = issued + 1
    /\ UNCHANGED << attempt, lastError, delay, settled, callCount, released,
                    lastResponse, retryableCount, rejectCount, configVars,
                    serverVars >>

\* request() resumes with its slot: it builds the URL, the headers and the
\* options (which throws when the body cannot be serialized) and enters the
\* loop.
Start(r, buildThrows) ==
    /\ pc[r] = "granted"
    /\ IF buildThrows
       THEN Finish(r, Throw(BuildError)) /\ UNCHANGED << attempt, callCount >>
       ELSE LoopStep(r, 0)
    /\ UNCHANGED << lastResponse, retryableCount, rejectCount, waited, issued,
                    configVars, serverVars >>

\* fetch settles with `out` and, for a response, response.text() delivers the
\* body (a body that fails to arrive is handled by the same catch block as a
\* rejected fetch); the outcome is classified.
AttemptReturns(r, out, rnd) ==
    /\ pc[r] = "fetching"
    /\ Finish(r, Classify(attempt[r], out, rnd))
    /\ lastResponse'   = [lastResponse EXCEPT ![r] = out]
    /\ retryableCount' = [retryableCount EXCEPT ![r] =
                            IF out.kind = "response" /\ out.status \in RetryableStatuses
                            THEN @ + 1 ELSE @]
    /\ rejectCount'    = [rejectCount EXCEPT ![r] =
                            IF out.kind = "reject" THEN @ + 1 ELSE @]
    /\ UNCHANGED << attempt, callCount, waited, issued, configVars,
                    serverVars >>

\* The backoff sleep is over: `continue`, attempt++, the loop condition.
SleepElapses(r) ==
    /\ pc[r] = "sleeping"
    /\ LoopStep(r, NextAttempt(attempt[r]))
    /\ UNCHANGED << lastResponse, retryableCount, rejectCount, waited, issued,
                    configVars, serverVars >>

Next ==
    \/ \E r \in Requests : Call(r)
    \/ \E r \in Requests, buildThrows \in BOOLEAN : Start(r, buildThrows)
    \/ \E r \in Requests, out \in transport, rnd \in RandomDraws :
          AttemptReturns(r, out, rnd)
    \/ \E r \in Requests : SleepElapses(r)

Spec == Init /\ [][Next]_vars

\* A continuation that is ready runs, an attempt in flight returns, a sleep
\* elapses: some request that can go on does.  Callers are not obliged to
\* issue further requests.
Progress ==
    \/ \E r \in Requests, buildThrows \in BOOLEAN : Start(r, buildThrows)
    \/ \E r \in Requests, out \in transport, rnd \in RandomDraws :
          AttemptReturns(r, out, rnd)
    \/ \E r \in Requests : SleepElapses(r)

Fairness == WF_vars(Progress)

FairSpec == InitGate /\ [][Next]_vars /\ Fairness

\* The same fairness over the concurrent runs and the runs of one request
\* against every way an attempt can end.
FairRetrySpec == InitRetry /\ [][Next]_vars /\ Fairness

\* ------------------------------------------------------- the backoff alone
\* The retry policies calculateDelay is exercised with, and the values of
\* Math.random() in hundredths.
DelayConfigs ==
    { [maxConcurrent |-> << >>, maxRetries |-> <<mr>>, baseDelay |-> <<bd>>,
       maxDelay |-> <<md>>, backoffMultiplier |-> <<bm>>] :
        mr \in 0 .. MaxRetries, bd \in {0, 100, 500, 1000},
        md \in {0, 1000, 5000, 32000}, bm \in {1, 2, 3} }

DelayDraws == {0, 25, 50, 75, 99}

InitDelay ==
    \E c \in DelayConfigs :
        InitWith([calls |-> 0, transport |-> {}, config |-> c])

\* A caught network error at attempt a, any a of the loop: the delay is
\* computed without Retry-After and the call sleeps for it.
DelayStep(r, a, rnd) ==
    /\ pc' = [pc EXCEPT ![r] = "sleeping"]
    /\ attempt' = [attempt EXCEPT ![r] = a]
    /\ lastError' = [lastError EXCEPT ![r] = FetchError]
    /\ delay' = [delay EXCEPT ![r] = calculateDelay(a, << >>, rnd)]
    /\ UNCHANGED << gateVars, settled, callCount, released, lastResponse,
                    retryableCount, rejectCount, grantLog, waited, issued,
                    configVars, serverVars >>

NextDelay ==
    \E a \in 0 .. retryConfig.maxRetries, rnd \in DelayDraws :
        DelayStep(1, a, rnd)

DelaySpec == InitDelay /\ [][NextDelay]_vars

\* ------------------------------------------------------- tool-call handler
\* Tools with a handler of their own in allHandlers: one that takes no
\* arguments, one that returns data, one that returns a message.
RegisteredTools == {"get_account", "get_server", "delete_server"}

\* Names that allHandlers, an object literal, inherits from Object.prototype.
ObjectPrototypeNames == {"toString", "constructor", "valueOf", "__proto__"}

\* The names a CallTool request may carry: any string.
ToolNames == RegisteredTools \cup ObjectPrototypeNames \cup {"no_such_tool", ""}

\* request.params.arguments: absent, accepted by the tool's schema, or not.
ToolArgs == {"none", "valid", "invalid"}

\* allHandlers[name], by the name of the function or object found.
LookupHandler(name) ==
    IF name \in RegisteredTools \cup ObjectPrototypeNames THEN name
    ELSE Undefined

ZodError  == [name |-> "ZodError", message |-> "server_id: Required", statusCode |-> 0]
TypeError(m) == [name |-> "TypeError", message |-> m, statusCode |-> 0]

\* The statuses an ApiError can carry, and how a client call can settle:
\* request() returns a decoded body or {} or throws an ApiError, a rejection
\* of fetch or a parse error.
ToolErrorStatuses == {400, 401, 403, 404, 409, 422, 429, 500, 502, 503, 504}

ClientOutcomes ==
    { Return(JSONparse(AccountText).data), Return(EmptyObject),
      Throw(FetchError), Throw(SyntaxError) }
      \cup { Throw(ApiError(JSONparse(t).data, st)) :
                st \in ToolErrorStatuses, t \in {DetailText, ObjectText} }

formatData(data)    == [type |-> "data", data |-> data, text |-> ""]
formatSuccess(text) == [type |-> "success", data |-> EmptyObject, text |-> text]

HandlerReturns(value, api) ==
    [kind |-> "return", value |-> value, error |-> NoError, api |-> api]
HandlerThrows(err, api) ==
    [kind |-> "throw", value |-> NoValue, error |-> err, api |-> api]

\* handler(client, args || {}) for the function or object found under name,
\* the client call, if one is made, settling with `out`.
RunHandler(name, args, out) ==
    CASE name = "get_account" ->
           IF out.kind = "return" THEN HandlerReturns(formatData(out.value), 1)
           ELSE HandlerThrows(out.error, 1)
      [] name = "get_server" ->
           IF args # "valid" THEN HandlerThrows(ZodError, 0)
           ELSE IF out.kind = "return"
                THEN HandlerReturns(formatData(out.value), 1)
                ELSE HandlerThrows(out.error, 1)
      [] name = "delete_server" ->
           IF args # "valid" THEN HandlerThrows(ZodError, 0)
           ELSE IF out.kind = "return"
                THEN HandlerReturns(formatSuccess("Server 1 deletion initiated"), 1)
                ELSE HandlerThrows(out.error, 1)
      [] name = "toString" ->
           HandlerReturns([type |-> "string", data |-> EmptyObject,
                           text |-> "[object Undefined]"], 0)
      [] name = "constructor" ->
           HandlerReturns([type |-> "client", data |-> EmptyObject, text |-> ""], 0)
      [] name = "valueOf" ->
           HandlerThrows(TypeError("Cannot convert undefined or null to object"), 0)
      [] OTHER ->
           HandlerThrows(TypeError("handler is not a function"), 0)

\* JSON.stringify on the decoded bodies of the transport.
ToJson(data) ==
    IF data.account # Undefined THEN AccountText
    ELSE IF data.detail # Undefined THEN DetailText
    ELSE IF data.title # Undefined THEN TitleText
    ELSE ObjectText

\* JSON.stringify(result, null, 2), white space left out.
JSONstringify(value) ==
    CASE value.type = "data" ->
           "{\"success\":true,\"data\":" \o ToJson(value.data) \o "}"
      [] value.type = "success" ->
           "{\"success\":true,\"message\":\"" \o value.text \o "\"}"
      [] value.type = "string" -> "\"" \o value.text \o "\""
      [] OTHER ->
           "{\"apiToken\":\"token\",\"maxConcurrent\":5,\"retryConfig\":{},"
             \o "\"activeRequests\":0,\"requestQueue\":[]}"

formatError(error) ==
    IF error.name = "ZodError"
    THEN "Validation error: " \o error.message
           \o ". Please check the parameter values and try again."
    ELSE IF error.name = "ApiError"
    THEN CASE error.statusCode = 401 ->
                "Authentication failed. Please verify your BINARYLANE_API_TOKEN is valid and not expired."
           [] error.statusCode = 403 ->
                "Permission denied. Your API token may not have access to this resource."
           [] error.statusCode = 404 ->
                "Resource not found. Please verify the ID exists using the appropriate list tool."
           [] error.statusCode = 409 ->
                "Conflict: The operation cannot be completed in the current state. Check if another operation is in progress."
           [] error.statusCode = 422 ->
                "Invalid request: " \o error.message
                  \o ". Check that all required parameters are provided with valid values."
           [] error.statusCode = 429 ->
                "Rate limit exceeded. Please wait a moment before retrying."
           [] error.statusCode \in {500, 502, 503, 504} ->
                "BinaryLane API error. This may be temporary - please try again in a few moments."
           [] OTHER ->
                "API error (" \o ToString(error.statusCode) \o "): " \o error.message
    ELSE "Error: " \o error.message

ToolResult(isError, text) == [kind |-> "result", isError |-> isError, text |-> text]

\* The CallTool handler up to `await handler(...)`: the lookup, and the
\* answer for a name under which nothing is found.
CallTool(name, args) ==
    /\ toolPhase \in {"idle", "done"}
    /\ toolRequest' = [name |-> name, args |-> args]
    /\ handlerSettled' = NotSettled
    /\ apiRequests' = 0
    /\ IF LookupHandler(name) = Undefined
       THEN /\ toolPhase' = "done"
            /\ toolResult' = ToolResult(TRUE, "Unknown tool: " \o name
                                 \o ". Use list_tools to see available tools.")
       ELSE /\ toolPhase' = "running"
            /\ toolResult' = NoToolResult
    /\ UNCHANGED clientVars

\* The handler settles: its result is serialized, its error formatted.
HandlerSettles(out) ==
    /\ toolPhase = "running"
    /\ LET h == RunHandler(LookupHandler(toolRequest.name), toolRequest.args, out) IN
         /\ handlerSettled' = [kind |-> h.kind, value |-> h.value, error |-> h.error]
         /\ apiRequests' = h.api
         /\ toolResult' = IF h.kind = "return"
                          THEN ToolResult(FALSE, JSONstringify(h.value))
                          ELSE ToolResult(TRUE, formatError(h.error))
    /\ toolPhase' = "done"
    /\ UNCHANGED << toolRequest, clientVars >>

\* The server: its client is constructed without configuration.
InitTool == InitWith([calls |-> 0, transport |-> {}, config |-> Config(<< >>, << >>)])

NextTool ==
    \/ \E name \in ToolNames, args \in ToolArgs : CallTool(name, args)
    \/ \E out \in ClientOutcomes : HandlerSettles(out)

ToolSpec == InitTool /\ [][NextTool]_vars

\* ----------------------------------------------------------------- claims
Holders  == {r \in Requests : pc[r] \in Holding}
InFlight == {r \in Requests : pc[r] = "fetching"}

\* Outcomes of fetch that request r has handled so far.
Responses(r) == callCount[r] - (IF pc[r] = "fetching" THEN 1 ELSE 0)

\* C1: on a client with maxConcurrent = N >= 1, however many request() calls
\* are issued, at most N requests are past waitForSlot and before releaseSlot,
\* and so at most N fetch calls are in flight.
C1_BoundedConcurrency ==
    maxConcurrent >= 1 =>
        /\ Cardinality(Holders) <= maxConcurrent
        /\ Cardinality(InFlight) <= maxConcurrent

\* More requests issued than slots, every slot busy with a fetch in flight,
\* the rest waiting.
C1_Witness ==
    /\ maxConcurrent >= 1
    /\ issued > maxConcurrent
    /\ Cardinality(InFlight) = maxConcurrent
    /\ requestQueue # << >>

\* C2: whatever way a request leaves request() (return, ApiError, exhausted
\* retries, network error, an exception while building), it has called
\* releaseSlot exactly once, and not before; once every issued request has
\* completed, activeRequests is back at its initial value 0.
C2_SlotReleasedOnce ==
    /\ \A r \in Requests :
          released[r] = (IF pc[r] \in Terminal THEN 1 ELSE 0)
    /\ (\A r \in 1 .. issued : pc[r] \in Terminal) => activeRequests = 0

\* Every request of the run has completed, after waiting in the queue for
\* some, one by a return, one with an ApiError and one while building.
C2_Witness ==
    /\ issued = calls /\ calls > maxConcurrent /\ maxConcurrent >= 1
    /\ \A r \in 1 .. issued : pc[r] \in Terminal /\ released[r] = 1
    /\ waited # {}
    /\ \E r \in Requests : settled[r].kind = "return"
    /\ \E r \in Requests : settled[r].error.name = "ApiError"
    /\ \E r \in Requests : settled[r].error = BuildError
    /\ activeRequests = 0

\* C3 as stated: a request suspended in the wait queue eventually acquires a
\* slot and issues its first attempt (every attempt returning and every sleep
\* elapsing).
C3_Original ==
    \A r \in Requests : (pc[r] = "waiting") ~> (callCount[r] >= 1)

\* C3, amended: on a client with maxConcurrent >= 1 a request suspended in
\* the wait queue eventually acquires a slot, and then issues its first
\* attempt unless building the request throws.
C3_EventuallyServed ==
    \A r \in Requests :
        (maxConcurrent >= 1 /\ pc[r] = "waiting")
            ~> (/\ \E i \in 1 .. Len(grantLog) : grantLog[i] = r
                /\ (callCount[r] >= 1 \/ settled[r].error = BuildError))

\* A request that was suspended in the queue has its first attempt in flight.
C3_Witness ==
    \E r \in waited :
        /\ maxConcurrent >= 1
        /\ pc[r] = "fetching"
        /\ callCount[r] = 1

\* C4: slots are granted in arrival order (request r is the r-th call of
\* request()): the grants made so far are in arrival order, the waiters are
\* queued in arrival order, and no request has been granted a slot that
\* arrived after a request still waiting.
C4_FifoOrder ==
    /\ \A i, j \in 1 .. Len(grantLog) : i < j => grantLog[i] < grantLog[j]
    /\ \A i, j \in 1 .. Len(requestQueue) : i < j => requestQueue[i] < requestQueue[j]
    /\ \A i \in 1 .. Len(requestQueue), j \in 1 .. Len(grantLog) :
          grantLog[j] < requestQueue[i]

\* Two requests that waited in the queue together have both been granted.
C4_Witness ==
    \E a, b \in waited :
        /\ a < b
        /\ \E i, j \in 1 .. Len(grantLog) : grantLog[i] = a /\ grantLog[j] = b

\* C5 as stated: a request whose every attempt got a response with a
\* retryable status has, once it has ended, made exactly maxRetries + 1
\* attempts and ended with an error.
C5_Claim ==
    \A r \in Requests :
        (/\ pc[r] \in Terminal
         /\ callCount[r] >= 1
         /\ retryableCount[r] = callCount[r])
        => (pc[r] = "failed" /\ callCount[r] = retryConfig.maxRetries + 1)

\* C6 as stated: a first response with an error status outside the retryable
\* set ends the request with an error after exactly 1 attempt, whatever
\* maxRetries and the body are.
C6_Claim ==
    \A r \in Requests :
        (/\ Responses(r) = 1
         /\ lastResponse[r].kind = "response"
         /\ ~ (lastResponse[r].status \in 200 .. 299)
         /\ lastResponse[r].status \notin RetryableStatuses)
        => (pc[r] = "failed" /\ callCount[r] = 1)

\* C7: whatever the attempts' outcomes, a request makes at most
\* maxRetries + 1 attempts, numbered 0 .. maxRetries, the attempt in progress
\* being the (attempt + 1)-th: retryable statuses and network failures are
\* counted by the same loop variable.
C7_AttemptBudget ==
    \A r \in Requests :
        /\ callCount[r] <= retryConfig.maxRetries + 1
        /\ attempt[r] \in 0 .. retryConfig.maxRetries
        /\ pc[r] \in {"fetching", "sleeping"} => callCount[r] = attempt[r] + 1

\* A request spent its whole budget of more than two attempts on a mix of
\* retryable statuses and network failures.
C7_Witness ==
    \E r \in Requests :
        /\ retryConfig.maxRetries >= 2
        /\ pc[r] = "failed"
        /\ callCount[r] = retryConfig.maxRetries + 1
        /\ retryableCount[r] >= 1
        /\ lastResponse[r] = NetworkFailure

\* C8: when the attempts before the last all got a retryable status and the
\* last got 200 with a JSON body, request() has returned the decoded body
\* after exactly (number of failures) + 1 attempts.
C8_SuccessAfterRetries ==
    \A r \in Requests :
        (/\ Responses(r) >= 1
         /\ lastResponse[r].kind = "response"
         /\ lastResponse[r].status = 200
         /\ lastResponse[r].text \in {ObjectText, DetailText, TitleText, AccountText}
         /\ retryableCount[r] = Responses(r) - 1)
        => (/\ pc[r] = "succeeded"
            /\ settled[r].kind = "return"
            /\ settled[r].value = JSONparse(lastResponse[r].text).data
            /\ lastResponse[r].text = AccountText => settled[r].value.account = "a"
            /\ callCount[r] = retryableCount[r] + 1)

\* Two retryable failures, then 200 with a payload.
C8_Witness ==
    \E r \in Requests :
        /\ pc[r] = "succeeded"
        /\ retryableCount[r] = 2
        /\ callCount[r] = 3
        /\ lastResponse[r] = Response(200, AccountText, Absent)
        /\ settled[r].value.account = "a"

\* C9: a request with an attempt in flight or in a backoff sleep has not
\* called releaseSlot, and each such request is counted in activeRequests.
C9_SlotHeldAcrossRetries ==
    /\ \A r \in Requests :
          pc[r] \in {"fetching", "sleeping"} => released[r] = 0
    /\ Cardinality({r \in Requests : pc[r] \in {"fetching", "sleeping"}})
          <= activeRequests

\* Every slot is held by a request that sleeps before a retry or has a
\* retry in flight, while another request waits.
C9_Witness ==
    /\ maxConcurrent >= 1
    /\ activeRequests = maxConcurrent
    /\ \A r \in Holders : pc[r] = "sleeping" \/ (pc[r] = "fetching" /\ attempt[r] >= 1)
    /\ \E r \in Holders : pc[r] = "sleeping"
    /\ \E r \in Holders : pc[r] = "fetching"
    /\ requestQueue # << >>

\* C10 as stated: while a request sleeps after a response with a retryable
\* status and a Retry-After header of integer value s, the delay is s * 1000.
C10_Claim ==
    \A r \in Requests :
        (/\ pc[r] = "sleeping"
         /\ lastResponse[r].kind = "response"
         /\ lastResponse[r].status \in RetryableStatuses
         /\ lastResponse[r].retryAfter \in {"0", "2"})
        => delay[r] = parseInt(lastResponse[r].retryAfter) * 1000

\* min(baseDelay * backoffMultiplier^a, maxDelay), the delay before jitter.
PreJitter(a) ==
    Min(retryConfig.baseDelay * Pow(retryConfig.backoffMultiplier, a),
        retryConfig.maxDelay)

\* The delay of request r was computed without a Retry-After value.
NoRetryAfterUsed(r) ==
    \/ lastError[r].name # "ApiError"
    \/ lastResponse[r].retryAfter \in {Absent, ""}

\* C11: a request that sleeps for a delay computed at attempt a without a
\* Retry-After value has a in 0..maxRetries and sleeps for a non-negative
\* delay between 0.8 and 1.2 times min(baseDelay * backoffMultiplier^a,
\* maxDelay).
C11_DelayWithinJitter ==
    \A r \in Requests :
        (pc[r] = "sleeping" /\ NoRetryAfterUsed(r))
        => /\ attempt[r] \in 0 .. retryConfig.maxRetries
           /\ delay[r] >= 0
           /\ 10 * delay[r] >= 8 * PreJitter(attempt[r])
           /\ 10 * delay[r] <= 12 * PreJitter(attempt[r])

\* A delay at the last attempt index whose exponential term exceeds
\* maxDelay and which jitter moved off the cap.
C11_Witness ==
    \E r \in Requests :
        /\ pc[r] = "sleeping"
        /\ NoRetryAfterUsed(r)
        /\ attempt[r] = retryConfig.maxRetries
        /\ attempt[r] >= 1
        /\ retryConfig.baseDelay * Pow(retryConfig.backoffMultiplier, attempt[r])
              > retryConfig.maxDelay
        /\ delay[r] > retryConfig.maxDelay

\* C12: the attempts of one request are sequential. A new attempt starts
\* only from a request that has none in flight: the first from the granted
\* slot, each later one from the backoff sleep that followed the outcome of
\* the attempt before it, with the next index. While an attempt is in flight
\* no backoff delay is outstanding, and an attempt in flight ends only by
\* being classified as success, failure or retry.
C12_SequentialAttempts ==
    [][\A r \in Requests :
          /\ callCount'[r] \in {callCount[r], callCount[r] + 1}
          /\ callCount'[r] = callCount[r] + 1
                => /\ pc[r] \in {"granted", "sleeping"}
                   /\ pc'[r] = "fetching"
                   /\ pc[r] = "granted" => callCount[r] = 0
                   /\ pc[r] = "sleeping" => attempt'[r] = attempt[r] + 1
          /\ pc'[r] = "fetching"
                => delay'[r] = 0 /\ callCount'[r] = attempt'[r] + 1
          /\ (pc[r] = "fetching" /\ pc'[r] # "fetching")
                => pc'[r] \in {"sleeping", "succeeded", "failed"}
          /\ (pc[r] = "sleeping" /\ pc'[r] # "sleeping")
                => pc'[r] = "fetching" /\ callCount'[r] = callCount[r] + 1
      ]_vars

\* A second attempt is in flight after the sleep that followed the first.
C12_Witness ==
    \E r \in Requests :
        /\ pc[r] = "fetching"
        /\ attempt[r] = 1
        /\ callCount[r] = 2
        /\ delay[r] = 0
        /\ lastResponse[r].kind \in {"response", "reject"}

\* C13 as stated: once a request has handled a response with a retryable
\* status at an attempt index below maxRetries, it is in backoff or in the
\* attempt of the next index, and nothing has been surfaced to the caller.
C13_Claim ==
    \A r \in Requests :
        (/\ lastResponse[r].kind = "response"
         /\ lastResponse[r].status \in RetryableStatuses
         /\ Responses(r) - 1 < retryConfig.maxRetries)
        => /\ pc[r] \in {"sleeping", "fetching"}
           /\ attempt[r] = (IF pc[r] = "sleeping" THEN Responses(r) - 1
                                                  ELSE Responses(r))
           /\ settled[r].kind = "pending"

\* C14 as stated: once a request has handled a response with a status
\* outside 2xx that is outside the retryable set or came at attempt index
\* maxRetries, request() has thrown an ApiError whose statusCode is the
\* status and whose message is the body's detail, else its title, else
\* 'API error: <status>'.
C14_Claim ==
    \A r \in Requests :
        (/\ lastResponse[r].kind = "response"
         /\ lastResponse[r].status \notin 200 .. 299
         /\ \/ lastResponse[r].status \notin RetryableStatuses
            \/ Responses(r) - 1 = retryConfig.maxRetries)
        => /\ pc[r] = "failed"
           /\ settled[r].kind = "throw"
           /\ settled[r].error.name = "ApiError"
           /\ settled[r].error.statusCode = lastResponse[r].status
           /\ settled[r].error.message =
                 (CASE lastResponse[r].text = DetailText -> "d"
                    [] lastResponse[r].text = TitleText  -> "t"
                    [] OTHER -> "API error: " \o ToString(lastResponse[r].status))

\* C15 as stated: a request that failed on its attempt of index maxRetries
\* surfaced the failure of that attempt: the rejection of fetch when the
\* attempt failed at network level, an ApiError with the status of the last
\* response when the attempt returned an error status.
C15_Claim ==
    \A r \in Requests :
        (pc[r] = "failed" /\ callCount[r] = retryConfig.maxRetries + 1)
        => /\ lastResponse[r].kind = "reject" => settled[r].error = FetchError
           /\ (/\ lastResponse[r].kind = "response"
               /\ lastResponse[r].status \notin 200 .. 299)
              => /\ settled[r].error.name = "ApiError"
                 /\ settled[r].error.statusCode = lastResponse[r].status

\* C16: after a rejected fetch at an attempt index below maxRetries the
\* request sleeps for the jittered exponential delay of that index and then
\* has the attempt of the next index in flight, nothing being surfaced; after
\* a rejected fetch at index maxRetries request() has thrown that rejection
\* unchanged. A finished request all of whose attempts were rejected made
\* exactly maxRetries + 1 attempts.
C16_NetworkFailureRetried ==
    \A r \in Requests :
        /\ (lastResponse[r].kind = "reject"
               /\ Responses(r) - 1 < retryConfig.maxRetries)
            => /\ pc[r] \in {"sleeping", "fetching"}
               /\ settled[r].kind = "pending"
               /\ pc[r] = "fetching" => attempt[r] = Responses(r)
               /\ pc[r] = "sleeping"
                    => /\ attempt[r] = Responses(r) - 1
                       /\ lastError[r] = FetchError
                       /\ 10 * delay[r] >= 8 * PreJitter(attempt[r])
                       /\ 10 * delay[r] <= 12 * PreJitter(attempt[r])
        /\ (lastResponse[r].kind = "reject"
               /\ Responses(r) - 1 >= retryConfig.maxRetries)
            => /\ pc[r] = "failed"
               /\ settled[r].kind = "throw"
               /\ settled[r].error = FetchError
               /\ Responses(r) - 1 = retryConfig.maxRetries
        /\ (pc[r] \in Terminal /\ callCount[r] >= 1
               /\ rejectCount[r] = callCount[r])
            => /\ pc[r] = "failed"
               /\ callCount[r] = retryConfig.maxRetries + 1

\* Every one of three or more attempts was rejected and the request failed
\* with the rejection.
C16_Witness ==
    \E r \in Requests :
        /\ pc[r] = "failed"
        /\ retryConfig.maxRetries >= 2
        /\ rejectCount[r] = retryConfig.maxRetries + 1
        /\ callCount[r] = rejectCount[r]
        /\ settled[r].error = FetchError

RECURSIVE SumTo(_, _)
SumTo(f, n) == IF n = 0 THEN 0 ELSE f[n] + SumTo(f, n - 1)

\* The transport has answered every attempt so far with a success, and no
\* request threw before reaching it.
TransportSucceeded ==
    \A r \in Requests :
        /\ retryableCount[r] = 0
        /\ rejectCount[r] = 0
        /\ settled[r].error # BuildError
        /\ \/ lastResponse[r] = NoResponse
           \/ /\ lastResponse[r].kind = "response"
              /\ lastResponse[r].status \in 200 .. 299
              /\ \/ lastResponse[r].status = 204
                 \/ lastResponse[r].text = EmptyText
                 \/ JSONparse(lastResponse[r].text).ok

\* Every request has returned successfully after one physical call each,
\* nobody waits and no slot is taken.
AllServed ==
    /\ issued = calls
    /\ \A r \in 1 .. calls : pc[r] = "succeeded" /\ settled[r].kind = "return"
    /\ SumTo(callCount, calls) = calls
    /\ requestQueue = << >>
    /\ activeRequests = 0

\* C18 as stated: on a client with maxConcurrent below the number M of
\* requests, when all M requests are issued and the transport always
\* succeeds, eventually all M have returned successfully after exactly M
\* physical calls, the wait queue is empty and activeRequests is 0.
C18_Original ==
    (maxConcurrent < calls)
    => (([]TransportSucceeded /\ <>(issued = calls)) => <>[]AllServed)

\* C18 for maxConcurrent >= 1: the same, and no request makes a second
\* physical call while the transport succeeds.
C18_AllServed ==
    (maxConcurrent >= 1 /\ maxConcurrent < calls)
    => /\ [](TransportSucceeded => \A r \in Requests : callCount[r] <= 1)
       /\ ([]TransportSucceeded /\ <>(issued = calls)) => <>[]AllServed

\* More requests than slots were all in the gate at once, some of them
\* queued, and all have been served by a transport that always succeeded.
C18_Witness ==
    /\ maxConcurrent >= 1
    /\ maxConcurrent < calls
    /\ TransportSucceeded
    /\ AllServed
    /\ Cardinality(waited) = calls - maxConcurrent

\* C19: a request that has succeeded or failed, its result surfaced to the
\* caller, stays as it is: no step gives it another attempt, a backoff
\* sleep, a slot or another result.
C19_TerminalIsFinal ==
    [][\A r \in Requests :
          (pc[r] \in Terminal \/ settled[r].kind # "pending")
          => /\ pc'[r] = pc[r]
             /\ pc[r] \in Terminal
             /\ callCount'[r] = callCount[r]
             /\ attempt'[r] = attempt[r]
             /\ delay'[r] = 0
             /\ settled'[r] = settled[r]
             /\ released'[r] = released[r]
      ]_vars

\* One request has succeeded and another has failed after retries while a
\* third still has an attempt in flight.
C19_Witness ==
    /\ \E r \in Requests : pc[r] = "succeeded"
    /\ \E r \in Requests : pc[r] = "failed" /\ callCount[r] >= 2
    /\ \E r \in Requests : pc[r] = "fetching"

\* C20: in every state the client's policy is what its constructor made of
\* the configuration it was given: 5 for an omitted maxConcurrent, 3 for an
\* omitted maxRetries, 1000 for an omitted baseDelay, 32000 for an omitted
\* maxDelay, 2 for an omitted backoffMultiplier, the given value otherwise;
\* and no step changes maxConcurrent or the retry policy.
C20_DefaultsAndImmutable ==
    /\ [](/\ maxConcurrent =
               (IF givenConfig.maxConcurrent = << >> THEN 5
                ELSE givenConfig.maxConcurrent[1])
           /\ retryConfig.maxRetries =
               (IF givenConfig.maxRetries = << >> THEN 3
                ELSE givenConfig.maxRetries[1])
           /\ retryConfig.baseDelay =
               (IF givenConfig.baseDelay = << >> THEN 1000
                ELSE givenConfig.baseDelay[1])
           /\ retryConfig.maxDelay =
               (IF givenConfig.maxDelay = << >> THEN 32000
                ELSE givenConfig.maxDelay[1])
           /\ retryConfig.backoffMultiplier =
               (IF givenConfig.backoffMultiplier = << >> THEN 2
                ELSE givenConfig.backoffMultiplier[1]))
    /\ [][maxConcurrent' = maxConcurrent /\ retryConfig' = retryConfig]_vars

\* A client constructed without configuration is in its third backoff, of
\* 4000 ms before jitter, with the default three retries.
C20_Witness ==
    /\ givenConfig = Config(<< >>, << >>)
    /\ maxConcurrent = 5
    /\ retryConfig.maxRetries = 3
    /\ \E r \in Requests :
          /\ pc[r] = "sleeping"
          /\ attempt[r] = 2
          /\ delay[r] >= 3200
          /\ delay[r] <= 4800

\* A step in which some request runs releaseSlot.
ReleaseStep == released' # released

\* C21: a step that runs releaseSlot with a non-empty wait queue removes
\* the head waiter and no other, resumes it and nobody else, and leaves
\* activeRequests as it was; with an empty wait queue it decreases
\* activeRequests by 1, leaves the queue empty and resumes nobody.
C21_ReleaseSlotEffect ==
    [][ReleaseStep
       => IF requestQueue # << >>
          THEN /\ requestQueue' = Tail(requestQueue)
               /\ activeRequests' = activeRequests
               /\ pc[Head(requestQueue)] = "waiting"
               /\ pc'[Head(requestQueue)] = "granted"
               /\ grantLog' = Append(grantLog, Head(requestQueue))
               /\ \A q \in Requests :
                     (pc[q] = "waiting" /\ q # Head(requestQueue))
                     => pc'[q] = "waiting"
          ELSE /\ requestQueue' = << >>
               /\ activeRequests' = activeRequests - 1
               /\ grantLog' = grantLog
               /\ \A q \in Requests : pc'[q] = "granted" => pc[q] = "granted"
      ]_vars

\* Slots were handed to two queued requests in turn, and the last releases
\* found the queue empty and freed every slot.
C21_Witness ==
    /\ Cardinality(waited) >= 2
    /\ \A q \in waited : pc[q] \in Terminal
    /\ issued = calls
    /\ requestQueue = << >>
    /\ activeRequests = 0
    /\ \E r \in Requests : released[r] = 1

\* A step in which request r calls waitForSlot.
WaitForSlotStep(r) == pc[r] = "idle" /\ pc'[r] # "idle"

\* C22: a call of waitForSlot while activeRequests < maxConcurrent takes
\* the slot at once, increases activeRequests by 1 and leaves the queue as it
\* was; a call while activeRequests >= maxConcurrent appends the caller at
\* the tail of the queue and leaves activeRequests as it was. A waiting
\* request is resumed only by a step in which another request runs
\* releaseSlot.
C22_WaitForSlotEffect ==
    [][\A r \in Requests :
          /\ WaitForSlotStep(r)
             => IF activeRequests < maxConcurrent
                THEN /\ pc'[r] = "granted"
                     /\ activeRequests' = activeRequests + 1
                     /\ requestQueue' = requestQueue
                ELSE /\ pc'[r] = "waiting"
                     /\ activeRequests' = activeRequests
                     /\ requestQueue' = Append(requestQueue, r)
          /\ (pc[r] = "waiting" /\ pc'[r] # "waiting")
             => /\ pc'[r] = "granted"
                /\ released'[r] = released[r]
                /\ \E q \in Requests \ {r} : released'[q] = released[q] + 1
      ]_vars

\* Every slot is taken and a request is queued, after a request that had
\* waited was resumed by a release.
C22_Witness ==
    /\ maxConcurrent >= 1
    /\ Len(requestQueue) >= 1
    /\ \E r \in waited : pc[r] \in Holding
    /\ \E r \in Requests : released[r] = 1
    /\ activeRequests = maxConcurrent

\* How often request r occurs in the log of grants.
Grants(r) == Cardinality({i \in 1 .. Len(grantLog) : grantLog[i] = r})

\* C23: activeRequests is the number of requests that have been granted a
\* slot and have not released it. It is never negative, every request is
\* granted a slot at most once and releases it at most once, and a request
\* holds a slot exactly from its grant to its release.
C23_ActiveIsHolders ==
    /\ activeRequests = Cardinality(Holders)
    /\ activeRequests = Cardinality({r \in Requests :
                                        Grants(r) = 1 /\ released[r] = 0})
    /\ activeRequests >= 0
    /\ \A r \in Requests :
          /\ Grants(r) <= 1
          /\ released[r] <= Grants(r)
          /\ r \in Holders <=> (Grants(r) = 1 /\ released[r] = 0)

\* Two requests hold the two slots, one of them after waiting for the slot
\* of a request that has released it.
C23_Witness ==
    /\ activeRequests = 2
    /\ Cardinality(Holders) = 2
    /\ \E r \in Holders : r \in waited
    /\ \E r \in Requests : released[r] = 1

C25_GateFrame ==
    [][/\ (activeRequests' # activeRequests \/ requestQueue' # requestQueue)
          => (ReleaseStep \/ \E r \in Requests : WaitForSlotStep(r))
       /\ \A r \in Requests :
             /\ (pc[r] \in {"granted", "sleeping"} /\ pc'[r] = "fetching")
                => (activeRequests' = activeRequests
                      /\ requestQueue' = requestQueue)
             /\ (pc[r] = "fetching" /\ pc'[r] = "sleeping")
                => (activeRequests' = activeRequests
                      /\ requestQueue' = requestQueue)
             /\ (attempt'[r] # attempt[r] \/ lastError'[r] # lastError[r])
                => /\ pc[r] \in Holding
                   /\ \A q \in Requests \ {r} :
                         /\ attempt'[q] = attempt[q]
                         /\ lastError'[q] = lastError[q]
                         /\ callCount'[q] = callCount[q]
                         /\ delay'[q] = delay[q]
      ]_vars

\* Two requests are in their retries at different attempt indices, one
\* sleeping and one with an attempt in flight, while a third waits.
C25_Witness ==
    \E r, q \in Requests :
        /\ pc[r] = "sleeping"
        /\ pc[q] = "fetching"
        /\ attempt[r] # attempt[q]
        /\ lastError[r] # NoError
        /\ requestQueue # << >>

\* C26: when attempts in flight keep returning and sleeps keep elapsing,
\* every request that holds a slot eventually has returned a payload or
\* thrown an error, whatever the transport answers.
C26_Terminates ==
    \A r \in Requests :
        (pc[r] \in Holding)
        ~> (pc[r] \in Terminal /\ settled[r].kind \in {"return", "throw"})

\* A request has thrown after spending its whole budget of three or more
\* attempts.
C26_Witness ==
    \E r \in Requests :
        /\ pc[r] = "failed"
        /\ settled[r].kind = "throw"
        /\ callCount[r] = retryConfig.maxRetries + 1
        /\ callCount[r] >= 3
        /\ released[r] = 1

C28_Original ==
    \A r \in Requests :
        pc[r] = "sleeping" => 10 * delay[r] <= 12 * retryConfig.maxDelay

\* C28 without Retry-After: a delay computed without a Retry-After value is
\* at most 1.2 times maxDelay; a delay taken from a Retry-After header is
\* the header's seconds times 1000, whatever maxDelay is.
C28_ComputedDelayBounded ==
    \A r \in Requests :
        pc[r] = "sleeping"
        => IF NoRetryAfterUsed(r)
           THEN 10 * delay[r] <= 12 * retryConfig.maxDelay
           ELSE delay[r] = parseInt(lastResponse[r].retryAfter) * 1000

\* A request sleeps for more than maxDelay, at the cap plus jitter, after
\* an attempt whose exponential delay exceeds maxDelay.
C28_Witness ==
    \E r \in Requests :
        /\ pc[r] = "sleeping"
        /\ NoRetryAfterUsed(r)
        /\ callCount[r] = attempt[r] + 1
        /\ retryConfig.baseDelay * Pow(retryConfig.backoffMultiplier, attempt[r])
              > retryConfig.maxDelay
        /\ delay[r] > retryConfig.maxDelay
        /\ 10 * delay[r] <= 12 * retryConfig.maxDelay

\* C29: the constructor takes the maxConcurrent it is given, 0 included.
\* On a client constructed with maxConcurrent = 0 every request issued is
\* waiting in the queue, has made no attempt and has no result, and no slot
\* is held. On a client with maxConcurrent >= 1 there is no state in which
\* requests wait while no request holds a slot.
C29_ZeroStarves ==
    /\ givenConfig.maxConcurrent # << >>
         => maxConcurrent = givenConfig.maxConcurrent[1]
    /\ givenConfig.maxConcurrent = << 0 >>
         => /\ activeRequests = 0
            /\ Len(requestQueue) = issued
            /\ \A r \in Requests :
                  /\ pc[r] = (IF r <= issued THEN "waiting" ELSE "idle")
                  /\ callCount[r] = 0
                  /\ settled[r].kind = "pending"
    /\ maxConcurrent >= 1
         => ~ (requestQueue # << >> /\ Holders = {})

\* A client with maxConcurrent = 0 on which every request was issued and
\* all of them wait.
C29_Witness ==
    /\ givenConfig.maxConcurrent = << 0 >>
    /\ maxConcurrent = 0
    /\ issued = calls
    /\ calls >= 2
    /\ Len(requestQueue) = calls

\* C30 as stated: a tool call that has been answered got a result and no
\* exception; for a name that is not a registered tool the result is an
\* error and no API request was made; when the handler threw, the result is
\* an error with the formatted message; when the handler returned, the
\* result is not an error.
C30_Claim ==
    toolPhase = "done"
    => /\ toolResult.kind = "result"
       /\ toolRequest.name \notin RegisteredTools
            => (toolResult.isError /\ apiRequests = 0)
       /\ handlerSettled.kind = "throw"
            => (toolResult.isError
                  /\ toolResult.text = formatError(handlerSettled.error))
       /\ handlerSettled.kind = "return" => ~ toolResult.isError

====
